---- MODULE Spec2Model ----
(***************************************************************************)
(* A model of the NIFTY trading bot's AI subsystem (src/ai-models):        *)
(*   - the prediction ensemble, TradingAIPredictionModel                   *)
(*     (price_prediction_model.py), as a shared object whose methods       *)
(*     train_models and predict are run by concurrent callers;             *)
(*   - the signal fusion of the prediction service                         *)
(*     (ai_prediction_service.py): predict_price_movement,                 *)
(*     generate_trading_recommendation, calculate_overall_confidence,      *)
(*     with the sentiment read by analyze_current_sentiment                *)
(*     (sentiment_analyzer.py);                                            *)
(*   - the backtester, TradingBacktester (backtesting_system.py): its      *)
(*     signal rules, trade simulation, result statistics and the three     *)
(*     strategy runs;                                                      *)
(*   - feature engineering and the direction model's cross-validation      *)
(*     (engineer_features, create_target_variables, train_direction_model);*)
(*   - the service process: initialize_models, /retrain, /predict, and     *)
(*     save_models / load_models on the directory ./models.                *)
(* Real numbers are fixed-point integers in hundredths: 0.7 is 70;         *)
(* momentum is in thousandths, quotients are kept as fractions.            *)
(***************************************************************************)
EXTENDS Integers, Sequences, FiniteSets, TLC

VARIABLES
    feature_columns,  \* ai_model.feature_columns: the list prepare_features stores
    scalers,          \* ai_model.scalers['main']: None, or a StandardScaler
    label_encoders,   \* ai_model.label_encoders['direction']: None, or a LabelEncoder
    models,           \* ai_model.models: name -> None, or a fitted estimator
    trainings,        \* number of train_models calls started so far
    completed,        \* number of train_models calls that returned or raised
    pc,               \* per caller thread: the line of predict/train_models it is at
    local,            \* per caller thread: the locals of the running call
    model_loaded,     \* the prediction service's global model_loaded
    flow,             \* one /predict request of the service and its response
    probe,            \* one call of a function: its input and result
    backtest,         \* the backtester's strategy runs and np.random's state
    service,          \* the service process: start-up, model_last_trained, /retrain
    disk              \* the files of the directory ./models

ensembleVars == <<feature_columns, scalers, label_encoders, models>>
callVars == <<trainings, completed, pc, local>>
serviceVars == <<model_loaded, flow, service, disk>>
backtestVars == <<probe, backtest>>
vars == <<feature_columns, scalers, label_encoders, models,
          trainings, completed, pc, local, model_loaded, flow, probe, backtest,
          service, disk>>

----------------------------------------------------------------------------
(* Bounds of the model *)

NumThreads == 2      \* concurrent callers of the one ensemble
MaxTrainings == 2    \* train_models calls in one behaviour

Threads == 1..NumThreads

None == "None"

Range(s) == {s[i] : i \in 1..Len(s)}

----------------------------------------------------------------------------
(* Data frames: the ordered column names of the frame handed to            *)
(* prepare_features.  A frame is named by how it was built.                *)

LabelColumns == {"price_direction", "trade_success", "profit_loss_percent"}

\* columns whose values are strings, dicts or timestamps, not numbers
CategoricalColumns ==
    {"timestamp", "indexName", "indicators", "marketConditions",
     "trend", "volatilityRegime", "timeOfDay", "price_direction"}

\* the dict predict_price_movement builds from a request
ServiceFrame(bb) ==
    <<"price", "indexName", "hour", "minute", "day_of_week",
      "is_opening_hour", "is_closing_hour",
      "ema", "rsi", "momentum", "volatility">>
    \o (IF bb THEN <<"bollingerBands.upper", "bollingerBands.middle",
                     "bollingerBands.lower", "bollingerBands.squeeze">>
              ELSE <<>>)
    \o <<"trend", "volatilityRegime", "timeOfDay">>

\* the sample dict of the training script
SampleFrame ==
    <<"price", "hour", "minute", "day_of_week",
      "is_opening_hour", "is_closing_hour",
      "ema", "rsi", "momentum", "volatility">>

\* the frame engineer_features and create_target_variables build for training
TrainingFrame(conditions, labels) ==
    <<"timestamp", "indexName", "price", "indicators">>
    \o (IF conditions THEN <<"marketConditions">> ELSE <<>>)
    \o <<"hour", "minute", "day_of_week", "is_opening_hour", "is_closing_hour">>
    \o <<"ema", "rsi", "bollingerBands.upper", "bollingerBands.middle",
         "bollingerBands.lower", "bollingerBands.squeeze",
         "momentum", "volatility">>
    \o (IF conditions THEN <<"trend", "volatilityRegime", "timeOfDay">> ELSE <<>>)
    \o <<"price_change_5", "price_ma_5", "price_change_10", "price_ma_10",
         "price_change_20", "price_ma_20",
         "price_volatility_10", "price_volatility_20">>
    \o <<"rsi_oversold", "rsi_overbought", "rsi_normalized",
         "bb_position", "bb_squeeze">>
    \o SelectSeq(<<"target_hit", "stop_loss_hit", "profit_loss_percent",
                   "holding_duration_minutes", "price_direction", "trade_success">>,
                 LAMBDA c : c \notin LabelColumns \/ c \in labels)

\* the dict get_ai_prediction_for_backtest builds from a historical row
BacktestFrame ==
    <<"price", "hour", "day_of_week", "is_opening_hour", "is_closing_hour",
      "ema", "rsi", "momentum", "volatility">>

\* the frames train_models is called with: snapshots without marketConditions
\* and any subset of the label columns, or the full training frame
TrainingFrames ==
    [kind : {"training"}, flag : {FALSE}, labels : SUBSET LabelColumns]
    \cup [kind : {"training"}, flag : {TRUE}, labels : {LabelColumns}]

\* the frames predict is called with
PredictFrames ==
    [kind : {"training"}, flag : {FALSE}, labels : {LabelColumns}]
    \cup [kind : {"service"}, flag : BOOLEAN, labels : {{}}]
    \cup [kind : {"sample", "backtest"}, flag : {FALSE}, labels : {{}}]

Columns(frame) ==
    CASE frame.kind = "training" -> TrainingFrame(frame.flag, frame.labels)
      [] frame.kind = "service"  -> ServiceFrame(frame.flag)
      [] frame.kind = "backtest" -> BacktestFrame
      [] OTHER                   -> SampleFrame

----------------------------------------------------------------------------
(* prepare_features *)

\* any(indicator in col.lower() for indicator in ['ema', 'rsi', 'momentum',
\* 'volatility', 'bb_', 'price_change', 'price_ma']), tabulated for the
\* columns of the frames above
TechnicalColumns ==
    {"ema", "rsi", "momentum", "volatility", "volatilityRegime",
     "price_change_5", "price_ma_5", "price_change_10", "price_ma_10",
     "price_change_20", "price_ma_20",
     "price_volatility_10", "price_volatility_20",
     "rsi_oversold", "rsi_overbought", "rsi_normalized",
     "bb_position", "bb_squeeze"}

BaseColumns ==
    <<"price", "hour", "minute", "day_of_week",
      "is_opening_hour", "is_closing_hour">>

\* the columns of df after prepare_features added its one-hot columns
FrameAfterOneHot(cols) ==
    LET present == Range(cols)
        add(names) == SelectSeq(names, LAMBDA c : c \notin present)
    IN  cols
        \o (IF "trend" \in present
               THEN add(<<"trend_bullish", "trend_bearish">>) ELSE <<>>)
        \o (IF "volatilityRegime" \in present
               THEN add(<<"vol_high", "vol_medium">>) ELSE <<>>)

\* available_cols: the columns of X, and the value stored in feature_columns
PrepareFeatures(cols) ==
    LET present == Range(cols)
        technical_cols == SelectSeq(cols, LAMBDA c : c \in TechnicalColumns)
        feature_cols ==
            BaseColumns \o technical_cols
            \o (IF "trend" \in present
                   THEN <<"trend_bullish", "trend_bearish">> ELSE <<>>)
            \o (IF "volatilityRegime" \in present
                   THEN <<"vol_high", "vol_medium">> ELSE <<>>)
        after == Range(FrameAfterOneHot(cols))
    IN  SelectSeq(feature_cols, LAMBDA c : c \in after)

\* X holds a column StandardScaler cannot convert to float
HasCategorical(X) == \E i \in 1..Len(X) : X[i] \in CategoricalColumns

----------------------------------------------------------------------------
(* Estimators *)

ModelNames == {"price_direction", "price_target", "volatility", "success_probability"}

Estimator(kind, gen) == [kind |-> kind, gen |-> gen]

\* the value None of a models entry, of scalers['main'], of label_encoders['direction']
NoModel == [kind |-> None, gen |-> 0]
NoScaler == [present |-> FALSE, fitted |-> FALSE, cols |-> <<>>, gen |-> 0]
NoEncoder == [present |-> FALSE, gen |-> 0]

\* sklearn regressors have no predict_proba; the classifier has
HasPredictProba(kind) == kind = "RandomForestClassifier"

\* average validation scores of the candidates, as small integers
ScoreValues == {-1, 0, 1, 2}

\* the loop over models_to_test: best_score starts at 0, a candidate is kept
\* only when avg_score > best_score
BestModel(rfScore, gbScore) ==
    LET best1 == IF rfScore > 0 THEN "RandomForestRegressor" ELSE None
        score1 == IF rfScore > 0 THEN rfScore ELSE 0
    IN  IF gbScore > score1 THEN "GradientBoostingRegressor" ELSE best1

----------------------------------------------------------------------------
(* Signal fusion: the pure functions of ai_prediction_service.py.          *)
(* A dict entry that may be missing is <<>> (missing) or <<value>>.        *)

Has(entry) == entry # <<>>
Get(entry, default) == IF entry = <<>> THEN default ELSE entry[1]

Min(a, b) == IF a < b THEN a ELSE b
Max(a, b) == IF a > b THEN a ELSE b

\* direction.lower()
Lower(direction) ==
    CASE direction = "UP" -> "up"
      [] direction = "DOWN" -> "down"
      [] OTHER -> "sideways"

\* a reasoning string: its format string and the value formatted into it
Reason(about, text, arg) == [about |-> about, text |-> text, arg |-> arg]

SeedRecommendationConfident ==
    [action |-> "HOLD", confidence |-> 80, reasoning |-> <<>>,
     risk_level |-> "MEDIUM", position_size |-> 100]
\* recommendation = {'action': 'HOLD', 'confidence': 0.5, ...}
SeedRecommendation ==
    [action |-> "HOLD", confidence |-> 50, reasoning |-> <<>>,
     risk_level |-> "MEDIUM", position_size |-> 100]

\* direction_confidence > 0.7
IsConfidentAtLeast(direction_confidence) == direction_confidence >= 70
IsConfident(direction_confidence) == direction_confidence > 70

\* Base recommendation on price direction prediction
DirectionStep(rec, predictions) ==
    IF ~Has(predictions.direction) THEN rec
    ELSE LET direction == predictions.direction[1]
             direction_confidence == Get(predictions.direction_confidence, 50)
         IN  IF direction = "UP" /\ IsConfident(direction_confidence)
             THEN [rec EXCEPT !.action = "BUY",
                              !.reasoning = Append(@,
                                  Reason("direction", "AI predicts upward movement",
                                         <<direction_confidence>>))]
             ELSE IF direction = "DOWN" /\ IsConfident(direction_confidence)
             THEN [rec EXCEPT !.action = "SELL",
                              !.reasoning = Append(@,
                                  Reason("direction", "AI predicts downward movement",
                                         <<direction_confidence>>))]
             ELSE [rec EXCEPT !.reasoning = Append(@,
                                  Reason("direction",
                                         "AI predicts {} movement with low confidence",
                                         <<Lower(direction)>>))]

\* success_prob < 0.4
IsLowSuccessAtMost(success_prob) == success_prob <= 40
IsLowSuccess(success_prob) == success_prob < 40

\* Factor in success probability
SuccessStep(rec, predictions) ==
    IF ~Has(predictions.success_probability) THEN rec
    ELSE LET success_prob == predictions.success_probability[1]
         IN  IF success_prob > 80
             THEN [rec EXCEPT !.confidence = Min(100, @ + 30),
                              !.reasoning = Append(@,
                                  Reason("success", "High success probability",
                                         <<success_prob>>))]
             ELSE IF IsLowSuccess(success_prob)
             THEN [rec EXCEPT !.action = "HOLD",
                              !.confidence = Max(10, @ - 30),
                              !.reasoning = Append(@,
                                  Reason("success", "Low success probability",
                                         <<success_prob>>))]
             ELSE rec

\* `if sentiment_score:` is false for None and for an empty dict
Truthy(sentiment_score) ==
    /\ Has(sentiment_score)
    /\ sentiment_score[1] # [compound_score |-> <<>>, confidence |-> <<>>]

\* the confidence after a sentiment that agrees with `action`
SentimentBoostAnyAction(rec, action) == Min(100, rec.confidence + 10)
SentimentBoost(rec, action) ==
    IF rec.action = action THEN Min(100, rec.confidence + 10) ELSE rec.confidence

\* Factor in sentiment analysis
SentimentStep(rec, sentiment_score) ==
    IF ~Truthy(sentiment_score) THEN rec
    ELSE LET sentiment_value == Get(sentiment_score[1].compound_score, 0)
         IN  IF sentiment_value > 30
             THEN [rec EXCEPT !.confidence = SentimentBoost(rec, "BUY"),
                              !.reasoning = Append(@,
                                  Reason("sentiment", "Positive market sentiment",
                                         <<sentiment_value>>))]
             ELSE IF sentiment_value < -30
             THEN [rec EXCEPT !.confidence = SentimentBoost(rec, "SELL"),
                              !.reasoning = Append(@,
                                  Reason("sentiment", "Negative market sentiment",
                                         <<sentiment_value>>))]
             ELSE rec

\* Adjust position size based on market_data.get('volatility', 0.15)
VolatilityStep(rec, market_data) ==
    LET volatility == Get(market_data.volatility, 15)
    IN  IF volatility > 25
        THEN [rec EXCEPT !.position_size = 70, !.risk_level = "HIGH"]
        ELSE IF volatility < 10
        THEN [rec EXCEPT !.position_size = 130, !.risk_level = "LOW"]
        ELSE rec

\* hour >= 15: near market close
IsNearCloseAfter(hour) == hour > 15
IsNearClose(hour) == hour >= 15

\* Time-based adjustments; hour is datetime.now().hour.  position_size *= 0.8
\* is exact on hundredths (the float product of 0.7 and 0.8 is one ulp below 0.56)
TimeStep(rec, hour) ==
    IF IsNearClose(hour)
    THEN [rec EXCEPT !.position_size = (@ * 8) \div 10,
                     !.reasoning = Append(@,
                         Reason("time", "Reduced size due to market close proximity",
                                <<>>))]
    ELSE rec

generate_trading_recommendation(predictions, sentiment_score, market_data, hour) ==
    TimeStep(
        VolatilityStep(
            SentimentStep(
                SuccessStep(DirectionStep(SeedRecommendation, predictions),
                            predictions),
                sentiment_score),
            market_data),
        hour)

RECURSIVE SumSeq(_)
SumSeq(q) == IF q = <<>> THEN 0 ELSE q[1] + SumSeq(Tail(q))

\* a mean that counts a missing factor as 0
OverallConfidenceOfThree(predictions, sentiment_score) ==
    [num |-> Get(predictions.direction_confidence, 0)
                 + Get(predictions.success_probability, 0)
                 + (IF Has(sentiment_score)
                       THEN Get(sentiment_score[1].confidence, 0) ELSE 0),
     den |-> 3]

\* np.mean(confidence_factors) as the fraction num/den of hundredths; 0.5 is 50/1
calculate_overall_confidence(predictions, sentiment_score) ==
    LET confidence_factors ==
            predictions.direction_confidence
            \o predictions.success_probability
            \o (IF Truthy(sentiment_score)
                   THEN sentiment_score[1].confidence ELSE <<>>)
    IN  IF confidence_factors # <<>>
        THEN [num |-> SumSeq(confidence_factors), den |-> Len(confidence_factors)]
        ELSE [num |-> 50, den |-> 1]

----------------------------------------------------------------------------
(* Backtester: entry rules.  Prices are integers, rsi is in points,       *)
(* momentum in thousandths, confidences and probabilities in hundredths.   *)

\* dict.get(key, default) on a prediction or signal dict
GetKey(dict, key, default) ==
    IF key \in DOMAIN dict /\ Has(dict[key]) THEN dict[key][1] ELSE default

\* a row's 'indicators' value: a dict with any of rsi, ema, momentum, or a
\* value that is no dict (None, NaN)
Indicators(rsi, ema, momentum) ==
    [is_dict |-> TRUE, rsi |-> rsi, ema |-> ema, momentum |-> momentum]

NotADict == [is_dict |-> FALSE, rsi |-> <<>>, ema |-> <<>>, momentum |-> <<>>]

\* a snapshot row: price is absent or a number, indicators is absent
\* (row.get gives {}) or a value; ai is what ai_model.predict does for the row
Row(price, indicators, ai) == [price |-> price, indicators |-> indicators, ai |-> ai]

\* row.get('indicators', {})
RowIndicators(row) ==
    IF Has(row.indicators) THEN row.indicators[1] ELSE Indicators(<<>>, <<>>, <<>>)

NotExtremeAtBounds(rsi) == rsi <= 70 /\ rsi >= 30
\* rsi < 70 and rsi > 30
NotExtreme(rsi) == rsi < 70 /\ rsi > 30

\* the body of the try block: the value returned, or "raise"
TechnicalConditions(row) ==
    LET indicators == RowIndicators(row)
    IN  IF ~indicators.is_dict
        THEN "raise"                      \* indicators.get: AttributeError
        ELSE LET rsi == Get(indicators.rsi, 50)
                 ema == Get(indicators.ema, 0)
                 momentum == Get(indicators.momentum, 0)
                 bullish_reached == NotExtreme(rsi) /\ momentum > 5
                 bearish_reached == NotExtreme(rsi) /\ momentum < -5
             IN  IF (bullish_reached \/ bearish_reached) /\ ~Has(row.price)
                 THEN "raise"             \* row['price']: KeyError
                 ELSE IF \/ bullish_reached /\ row.price[1] > ema
                         \/ bearish_reached /\ row.price[1] < ema
                      THEN "True" ELSE "False"

should_generate_technical_signal(row) == TechnicalConditions(row) = "True"

\* what get_ai_prediction_for_backtest returns: None when predict raised
NoPrediction == [returned |-> FALSE, direction |-> <<>>,
                 direction_confidence |-> <<>>, success_probability |-> <<>>]

Prediction(predictions) ==
    [returned |-> TRUE, direction |-> predictions.direction,
     direction_confidence |-> predictions.direction_confidence,
     success_probability |-> predictions.success_probability]

\* bool(ai_prediction): a dict with at least one key
TruthyPrediction(ai_prediction) ==
    /\ ai_prediction.returned
    /\ \/ Has(ai_prediction.direction)
       \/ Has(ai_prediction.direction_confidence)
       \/ Has(ai_prediction.success_probability)

Signal(should_trade, confidence, direction, reasoning) ==
    [should_trade |-> should_trade, confidence |-> <<confidence>>,
     direction |-> <<direction>>, reasoning |-> reasoning]

\* ai_confidence > 0.7
PassesConfidenceGate(ai_confidence) == ai_confidence > 70

combine_technical_ai_signals(row, ai_prediction) ==
    LET result == Signal(FALSE, 50, "HOLD", <<>>)
    IN  IF ~TruthyPrediction(ai_prediction) THEN result
        ELSE LET indicators == RowIndicators(row)
                 tech_bullish == Get(indicators.momentum, 0) > 5
                 ai_direction == GetKey(ai_prediction, "direction", "SIDEWAYS")
                 ai_confidence == GetKey(ai_prediction, "direction_confidence", 50)
             IN  IF ~PassesConfidenceGate(ai_confidence) THEN result
                 ELSE IF \/ tech_bullish /\ ai_direction = "UP"
                         \/ ~tech_bullish /\ ai_direction = "DOWN"
                 THEN Signal(TRUE, Min(95, ai_confidence + 10), ai_direction,
                             <<"Technical and AI agreement">>)
                 ELSE IF ai_confidence > 80
                 THEN Signal(TRUE, ai_confidence, ai_direction,
                             <<"High AI confidence override">>)
                 ELSE result

\* the test of backtest_ai_only_strategy
ai_only_signal(ai_prediction) ==
    TruthyPrediction(ai_prediction) /\ GetKey(ai_prediction, "confidence", 0) > 70

----------------------------------------------------------------------------
(* Backtester: the random source and the simulated trade.  np.random is    *)
(* one process-wide generator: a state, a draw that reads and advances it, *)
(* and seed(), which replaces the state.  A draw u stands for the fraction *)
(* u / RngModulus of [0, 1).  profit_loss_percent is in hundredths of a    *)
(* percent and factors are in ten-thousandths.                             *)

RngModulus == 10     \* number of generator states

RngStates == 0..(RngModulus - 1)

\* the generator state after one draw
Advance(state) == (state + 7) % RngModulus

seed_mixing_state(state, seed) == (state + seed) % RngModulus
\* np.random.seed(seed): the state becomes a function of the seed alone
np_random_seed(state, seed) == seed % RngModulus

\* np.random.uniform(low, high) and np.random.randint(low, high) for draw u
Uniform(low, high, u) == low + ((high - low) * u) \div RngModulus

\* rand < threshold, the threshold in ten-thousandths
RandBelow(u, threshold) == u * 10000 < threshold * RngModulus

\* confidence * 0.7, in ten-thousandths
TargetProbability(confidence) == confidence * 70

simulate_trade_outcome(entry_price, target_price, stop_loss_price, confidence, rng) ==
    LET target_probability == TargetProbability(confidence)
        rand == rng
        second == Advance(rng)
        third == Advance(second)
        result == IF RandBelow(rand, target_probability) THEN "TARGET_HIT"
                  ELSE IF RandBelow(rand, target_probability + 6000)
                       THEN "STOP_LOSS_HIT"
                  ELSE "MANUAL_EXIT"
        exit_price ==
            CASE result = "TARGET_HIT" ->
                     (target_price * Uniform(9500, 10000, second)) \div 10000
              [] result = "STOP_LOSS_HIT" ->
                     (stop_loss_price * Uniform(10000, 10500, second)) \div 10000
              [] OTHER ->
                     (entry_price * Uniform(9800, 10200, second)) \div 10000
        duration ==
            CASE result = "TARGET_HIT" -> Uniform(5, 120, third)
              [] result = "STOP_LOSS_HIT" -> Uniform(2, 60, third)
              [] OTHER -> Uniform(10, 90, third)
        profit_loss == exit_price - entry_price
    IN  [exit_price |-> exit_price,
         result |-> result,
         profit_loss |-> profit_loss,
         profit_loss_percent |-> (profit_loss * 10000) \div entry_price,
         duration_minutes |-> duration,
         rng |-> Advance(third)]

\* simulate_trade: <<trade>> and the generator state after it, or <<>> (None)
\* when the row has no price; signal_data is <<>> for None
simulate_trade(row, timestamp, strategy_type, signal_data, rng) ==
    IF ~Has(row.price) THEN [trade |-> <<>>, rng |-> rng]
    ELSE
    LET entry_price == row.price[1]
        momentum == Get(RowIndicators(row).momentum, 0)
        direction == IF Has(signal_data)
                        THEN GetKey(signal_data[1], "direction", "UP")
                        ELSE IF momentum > 0 THEN "UP" ELSE "DOWN"
        confidence == IF Has(signal_data)
                         THEN GetKey(signal_data[1], "confidence", 60)
                         ELSE 60
        target_price == IF direction = "UP" THEN (entry_price * 130) \div 100
                                            ELSE (entry_price * 70) \div 100
        stop_loss_price == IF direction = "UP" THEN (entry_price * 80) \div 100
                                               ELSE (entry_price * 120) \div 100
        outcome == simulate_trade_outcome(entry_price, target_price,
                                          stop_loss_price, confidence, rng)
    IN  [trade |-> <<[timestamp |-> timestamp,
                      strategy |-> strategy_type,
                      direction |-> direction,
                      entry_price |-> entry_price,
                      target_price |-> target_price,
                      stop_loss_price |-> stop_loss_price,
                      exit_price |-> outcome.exit_price,
                      outcome |-> outcome.result,
                      profit_loss |-> outcome.profit_loss,
                      profit_loss_percent |-> outcome.profit_loss_percent,
                      confidence |-> confidence,
                      duration_minutes |-> outcome.duration_minutes]>>,
         rng |-> outcome.rng]

----------------------------------------------------------------------------
(* Backtester: risk analytics.  A float that is a quotient is kept as the  *)
(* fraction [num, den]; float('inf') is 1/0.                               *)

Fraction(num, den) == [num |-> num, den |-> den]
Zero == Fraction(0, 1)
Infinity == Fraction(1, 0)

IsWinningOrFlat(profit_loss_percent) == profit_loss_percent >= 0
\* trades_df['profit_loss_percent'] > 0
IsWinning(profit_loss_percent) == profit_loss_percent > 0
\* trades_df['profit_loss_percent'] <= 0
IsLosing(profit_loss_percent) == profit_loss_percent <= 0

\* the profit_loss_percent column
Returns(trades) == [i \in 1..Len(trades) |-> trades[i].profit_loss_percent]

\* np.cumsum
CumSum(returns) == [i \in 1..Len(returns) |-> SumSeq(SubSeq(returns, 1, i))]

MaxOf(S) == CHOOSE x \in S : \A y \in S : y <= x
MinOf(S) == CHOOSE x \in S : \A y \in S : x <= y

RunningMaxFromZero(cumulative) ==
    [i \in 1..Len(cumulative) |-> MaxOf({0} \cup {cumulative[j] : j \in 1..i})]
\* np.maximum.accumulate
RunningMax(cumulative) ==
    [i \in 1..Len(cumulative) |-> MaxOf({cumulative[j] : j \in 1..i})]

calculate_max_drawdown(returns) ==
    LET cumulative_returns == CumSum(returns)
        running_max == RunningMax(cumulative_returns)
        drawdown == [i \in 1..Len(returns) |->
                        cumulative_returns[i] - running_max[i]]
    IN  MinOf(Range(drawdown))

\* the Sharpe ratio is mean(excess) / std(excess) * sqrt(252); its two rational
\* parts are kept (returns in hundredths of a percent, risk-free 0.05 / 252)
calculate_sharpe_ratio(returns) ==
    LET n == Len(returns)
        total == SumSeq(returns)
        squares == SumSeq([i \in 1..n |-> returns[i] * returns[i]])
    IN  IF n = 0 \/ n * squares = total * total
        THEN Zero
        ELSE [mean_excess |-> Fraction(252 * total - 5 * n, 25200 * n),
              variance |-> Fraction(n * squares - total * total, 10000 * n * n)]

ProfitFactorZeroWithoutLoss(total_profit, total_loss) ==
    IF total_loss > 0 THEN Fraction(total_profit, total_loss) ELSE Zero
\* total_profit / total_loss if total_loss > 0 else float('inf')
ProfitFactor(total_profit, total_loss) ==
    IF total_loss > 0 THEN Fraction(total_profit, total_loss) ELSE Infinity

BacktestResult(strategy_name, total_trades, winning_trades, losing_trades, win_rate, total_profit, total_loss, net_profit, max_drawdown, sharpe_ratio, avg_trade_duration, best_trade, worst_trade, profit_factor) ==
    [strategy_name |-> strategy_name, total_trades |-> total_trades,
     winning_trades |-> winning_trades, losing_trades |-> losing_trades,
     win_rate |-> win_rate, total_profit |-> total_profit,
     total_loss |-> total_loss, net_profit |-> net_profit,
     max_drawdown |-> max_drawdown, sharpe_ratio |-> sharpe_ratio,
     avg_trade_duration |-> avg_trade_duration, best_trade |-> best_trade,
     worst_trade |-> worst_trade, profit_factor |-> profit_factor]

EmptyResultInfiniteFactor(strategy_name) ==
    BacktestResult(strategy_name, 0, 0, 0, Zero, 0, 0, 0, 0, Zero, Zero, 0, 0,
                   Infinity)
\* the result for an empty trade list
EmptyResult(strategy_name) ==
    BacktestResult(strategy_name, 0, 0, 0, Zero, 0, 0, 0, 0, Zero, Zero, 0, 0,
                   Zero)

calculate_backtest_results(trades, strategy_name) ==
    IF trades = <<>> THEN EmptyResult(strategy_name)
    ELSE
    LET returns == Returns(trades)
        total_trades == Len(trades)
        profits == SelectSeq(returns, IsWinning)
        losses == SelectSeq(returns, IsLosing)
        winning_trades == Len(profits)
        losing_trades == Len(losses)
        total_profit == IF Len(profits) > 0 THEN SumSeq(profits) ELSE 0
        total_loss == IF Len(losses) > 0
                         THEN (IF SumSeq(losses) < 0 THEN -SumSeq(losses)
                                                     ELSE SumSeq(losses))
                         ELSE 0
    IN  BacktestResult(
            strategy_name, total_trades, winning_trades, losing_trades,
            Fraction(winning_trades * 100, total_trades),
            total_profit, total_loss, total_profit - total_loss,
            calculate_max_drawdown(returns),
            calculate_sharpe_ratio(returns),
            Fraction(SumSeq([i \in 1..Len(trades) |-> trades[i].duration_minutes]),
                     total_trades),
            MaxOf(Range(returns)), MinOf(Range(returns)),
            ProfitFactor(total_profit, total_loss))

----------------------------------------------------------------------------
(* Backtester: state *)

\* no backtester function has been called
NoProbe == [kind |-> "none", called |-> FALSE]

\* rng: np.random's state; pending_seed: the seed of an np.random.seed call
\* since the last draw; seeds: per run, the seed it started from, if any;
\* data: the snapshot rows; i: the row the running loop is at; trades: its
\* trade list; log, results: per finished run, its trades and BacktestResult
Backtester(rng) ==
    [stage |-> "idle", rng |-> rng, pending_seed |-> <<>>, seeds |-> <<>>,
     strategy |-> "none", data |-> <<>>, i |-> 0, trades |-> <<>>,
     log |-> <<>>, results |-> <<>>]

\* TradingBacktester.__init__, no function called and no strategy run
InitBacktester ==
    /\ probe = NoProbe
    /\ backtest = Backtester(0)

----------------------------------------------------------------------------
(* Persistence and the service process *)

\* the names bound at module level in price_prediction_model.py
ModuleGlobals ==
    {"pd", "np", "json", "pickle", "datetime", "timedelta",
     "train_test_split", "TimeSeriesSplit",
     "RandomForestRegressor", "GradientBoostingRegressor", "LinearRegression",
     "StandardScaler", "LabelEncoder",
     "mean_squared_error", "mean_absolute_error", "r2_score",
     "joblib", "plt", "sns", "TradingAIPredictionModel"}

\* the fields of an ensemble
Ensemble(m, s, l, f) ==
    [models |-> m, scalers |-> s, label_encoders |-> l, feature_columns |-> f]

\* TradingAIPredictionModel()
NewEnsemble ==
    Ensemble([name \in ModelNames |-> NoModel], NoScaler, NoEncoder, <<>>)

\* an empty directory: no <name>_model.pkl, scalers.pkl, label_encoders.pkl,
\* feature_columns.pkl
NoFiles ==
    [models |-> NewEnsemble.models, scalers |-> <<>>, label_encoders |-> <<>>,
     feature_columns |-> <<>>]

\* save_models: a file per model that is not None (a file of an earlier save
\* stays), then the three pickles
save_models(ensemble, files) ==
    [models |-> [name \in DOMAIN ensemble.models |->
                    IF ensemble.models[name] # NoModel
                    THEN ensemble.models[name] ELSE files.models[name]],
     scalers |-> <<ensemble.scalers>>,
     label_encoders |-> <<ensemble.label_encoders>>,
     feature_columns |-> <<ensemble.feature_columns>>]

\* load_models: what it returns and the ensemble it leaves.  The first
\* statement of its loop evaluates os.path.exists: a name that is not bound
\* raises NameError, which the except clause turns into return False; a
\* missing pickle raises FileNotFoundError after the models were assigned
load_models(ensemble, files) ==
    LET loaded == [name \in DOMAIN ensemble.models |->
                      IF files.models[name] # NoModel
                      THEN files.models[name] ELSE ensemble.models[name]]
    IN  IF "os" \notin ModuleGlobals
        THEN [returned |-> FALSE, ensemble |-> ensemble]
        ELSE IF files.scalers = <<>>
        THEN [returned |-> FALSE,
              ensemble |-> [ensemble EXCEPT !.models = loaded]]
        ELSE [returned |-> TRUE,
              ensemble |-> Ensemble(loaded, files.scalers[1],
                                    files.label_encoders[1],
                                    files.feature_columns[1])]

\* the process is not started: initialize_models has not run
Stopped ==
    [started |-> FALSE, load_models |-> <<>>, model_last_trained |-> "None",
     retrain |-> "none"]

InitDeployment ==
    /\ service = Stopped
    /\ disk = NoFiles

----------------------------------------------------------------------------
(* Locals of a call *)

\* op: the running method; X: the frame prepare_features returned; labels: the
\* label columns of the training frame; gen: the number of this training;
\* settled: when predict was called no training ran and the scaler was fitted;
\* epoch: the trainings started by then; seen: the trainings whose scaler or
\* models this predict has read
IdleLocal ==
    [op |-> "none", X |-> <<>>, labels |-> {}, gen |-> 0,
     settled |-> FALSE, epoch |-> 0, seen |-> {},
     predictions |-> {}, outcome |-> "none", error |-> "none"]

\* TradingAIPredictionModel.__init__, and callers that have not called yet
InitEnsemble ==
    /\ feature_columns = <<>>
    /\ scalers = NoScaler
    /\ label_encoders = NoEncoder
    /\ models = [m \in ModelNames |-> NoModel]
    /\ trainings = 0
    /\ completed = 0
    /\ pc = [t \in Threads |-> "idle"]
    /\ local = [t \in Threads |-> IdleLocal]

\* a /predict request as received: the JSON keys the handler reads.  A request
\* may carry keys the documented format does not name, such as a top-level
\* volatility
Request(indexName, currentPrice, indicators, volatility) ==
    [indexName |-> indexName, currentPrice |-> currentPrice,
     indicators |-> indicators, volatility |-> volatility]

NoRequest == Request(<<>>, <<>>, <<>>, <<>>)

Received(request) ==
    [stage |-> "received", request |-> request,
     predictions |-> <<>>, sentiment_failed |-> FALSE,
     sentiment_score |-> <<>>, hour |-> <<>>,
     status |-> 0, error |-> "", recommendation |-> <<>>, confidence |-> <<>>]

Init ==
    /\ InitEnsemble
    /\ model_loaded = FALSE
    /\ flow = Received(NoRequest)
    /\ InitDeployment
    /\ InitBacktester

----------------------------------------------------------------------------
(* predict(market_data), one action per access to the ensemble's state *)

\* the call with a dict or a DataFrame, up to
\* X = self.prepare_features(market_data), which stores self.feature_columns
PredictPrepare(t) ==
    /\ pc[t] = "idle"
    /\ \E frame \in PredictFrames :
          LET X == PrepareFeatures(Columns(frame))
          IN  /\ feature_columns' = X
              /\ local' = [local EXCEPT ![t] =
                             [IdleLocal EXCEPT !.op = "predict", !.X = X,
                                               !.settled =
                                                   (/\ trainings = completed
                                                    /\ scalers.fitted),
                                               !.epoch = trainings,
                                               !.outcome = "running"]]
    /\ pc' = [pc EXCEPT ![t] = "p_transform"]
    /\ UNCHANGED <<scalers, label_encoders, models, trainings, completed, serviceVars, backtestVars>>

Raise(t, error) ==
    /\ local' = [local EXCEPT ![t].outcome = "raised", ![t].error = error,
                              ![t].predictions = {}]
    /\ pc' = [pc EXCEPT ![t] = "done"]

\* why self.scalers['main'].transform(X) raises, or "none"
TransformError(X) ==
    IF ~scalers.present THEN "KeyError"
    ELSE IF ~scalers.fitted THEN "NotFittedError"
    ELSE IF HasCategorical(X) \/ X # scalers.cols THEN "ValueError"
    ELSE "none"

\* X_scaled = self.scalers['main'].transform(X)
PredictTransform(t) ==
    /\ pc[t] = "p_transform"
    /\ LET error == TransformError(local[t].X)
       IN  IF error # "none"
           THEN Raise(t, error)
           ELSE /\ local' = [local EXCEPT ![t].seen = @ \cup {scalers.gen}]
                /\ pc' = [pc EXCEPT ![t] = "p_direction"]
    /\ UNCHANGED <<ensembleVars, trainings, completed, serviceVars, backtestVars>>

\* if self.models['price_direction']: predict, inverse_transform, predict_proba
PredictDirection(t) ==
    /\ pc[t] = "p_direction"
    /\ LET model == models["price_direction"]
       IN  IF model = NoModel
           THEN /\ pc' = [pc EXCEPT ![t] = "p_success"]
                /\ UNCHANGED local
           ELSE IF ~label_encoders.present
           THEN Raise(t, "KeyError")
           ELSE IF ~HasPredictProba(model.kind)
           THEN /\ local' = [local EXCEPT
                                ![t].seen = @ \cup {model.gen},
                                ![t].outcome = "raised",
                                ![t].error = "AttributeError",
                                ![t].predictions = {}]
                /\ pc' = [pc EXCEPT ![t] = "done"]
           ELSE /\ local' = [local EXCEPT
                                ![t].seen = @ \cup {model.gen},
                                ![t].predictions =
                                    @ \cup {"direction", "direction_confidence"}]
                /\ pc' = [pc EXCEPT ![t] = "p_success"]
    /\ UNCHANGED <<ensembleVars, trainings, completed, serviceVars, backtestVars>>

\* if self.models['success_probability']: predict_proba(X_scaled)[0, 1]
PredictSuccess(t) ==
    /\ pc[t] = "p_success"
    /\ LET model == models["success_probability"]
       IN  IF model = NoModel
           THEN UNCHANGED local
           ELSE local' = [local EXCEPT
                             ![t].seen = @ \cup {model.gen},
                             ![t].predictions = @ \cup {"success_probability"}]
    /\ pc' = [pc EXCEPT ![t] = "p_target"]
    /\ UNCHANGED <<ensembleVars, trainings, completed, serviceVars, backtestVars>>

\* if self.models['price_target']: predict(X_scaled)[0]; return predictions
PredictTarget(t) ==
    /\ pc[t] = "p_target"
    /\ LET model == models["price_target"]
       IN  IF model = NoModel
           THEN local' = [local EXCEPT ![t].outcome = "returned"]
           ELSE local' = [local EXCEPT
                             ![t].seen = @ \cup {model.gen},
                             ![t].predictions = @ \cup {"expected_profit_percent"},
                             ![t].outcome = "returned"]
    /\ pc' = [pc EXCEPT ![t] = "done"]
    /\ UNCHANGED <<ensembleVars, trainings, completed, serviceVars, backtestVars>>

PredictStep(t) ==
    \/ PredictPrepare(t)
    \/ PredictTransform(t)
    \/ PredictDirection(t)
    \/ PredictSuccess(t)
    \/ PredictTarget(t)

----------------------------------------------------------------------------
(* train_models(df), one action per write to the ensemble's state *)

\* the call, up to X = self.prepare_features(df)
TrainPrepare(t) ==
    /\ pc[t] = "idle"
    /\ trainings < MaxTrainings
    /\ trainings' = trainings + 1
    /\ \E frame \in TrainingFrames :
          LET X == PrepareFeatures(Columns(frame))
          IN  /\ feature_columns' = X
              /\ local' = [local EXCEPT ![t] =
                             [IdleLocal EXCEPT !.op = "train", !.X = X,
                                               !.labels = frame.labels,
                                               !.gen = trainings + 1,
                                               !.outcome = "running"]]
    /\ pc' = [pc EXCEPT ![t] = "t_scaler"]
    /\ UNCHANGED <<scalers, label_encoders, models, completed, serviceVars, backtestVars>>

\* self.scalers['main'] = StandardScaler()
TrainNewScaler(t) ==
    /\ pc[t] = "t_scaler"
    /\ scalers' = [present |-> TRUE, fitted |-> FALSE, cols |-> <<>>,
                   gen |-> local[t].gen]
    /\ pc' = [pc EXCEPT ![t] = "t_fit"]
    /\ UNCHANGED <<feature_columns, label_encoders, models, trainings, completed, local, serviceVars, backtestVars>>

\* X_scaled = self.scalers['main'].fit_transform(X): a string column raises
TrainFitScaler(t) ==
    /\ pc[t] = "t_fit"
    /\ scalers.present
    /\ IF HasCategorical(local[t].X)
       THEN /\ Raise(t, "ValueError")
            /\ UNCHANGED scalers
       ELSE /\ scalers' = [scalers EXCEPT !.fitted = TRUE, !.cols = local[t].X]
            /\ pc' = [pc EXCEPT ![t] = "t_encoder"]
            /\ UNCHANGED local
    /\ UNCHANGED <<feature_columns, label_encoders, models, trainings, completed, serviceVars, backtestVars>>

HasLabel(t, column) == column \in local[t].labels

\* train_direction_model: return early without labels, else fit the encoder
TrainEncoder(t) ==
    /\ pc[t] = "t_encoder"
    /\ IF HasLabel(t, "price_direction")
       THEN /\ label_encoders' = [present |-> TRUE, gen |-> local[t].gen]
            /\ pc' = [pc EXCEPT ![t] = "t_direction"]
       ELSE /\ UNCHANGED label_encoders
            /\ pc' = [pc EXCEPT ![t] = "t_success"]
    /\ UNCHANGED <<feature_columns, scalers, models, trainings, completed, local, serviceVars, backtestVars>>

\* the cross-validation loop; self.models['price_direction'] = best_model
TrainDirection(t) ==
    /\ pc[t] = "t_direction"
    /\ \E rfScore \in ScoreValues, gbScore \in ScoreValues :
          LET best == BestModel(rfScore, gbScore)
          IN  models' = [models EXCEPT !["price_direction"] =
                            IF best = None THEN NoModel
                            ELSE Estimator(best, local[t].gen)]
    /\ pc' = [pc EXCEPT ![t] = "t_success"]
    /\ UNCHANGED <<feature_columns, scalers, label_encoders, trainings, completed, local, serviceVars, backtestVars>>

\* train_success_probability_model
TrainSuccess(t) ==
    /\ pc[t] = "t_success"
    /\ IF HasLabel(t, "trade_success")
       THEN models' = [models EXCEPT !["success_probability"] =
                          Estimator("RandomForestClassifier", local[t].gen)]
       ELSE UNCHANGED models
    /\ pc' = [pc EXCEPT ![t] = "t_profit"]
    /\ UNCHANGED <<feature_columns, scalers, label_encoders, trainings, completed, local, serviceVars, backtestVars>>

\* train_profit_regression_model, then train_models returns
TrainProfit(t) ==
    /\ pc[t] = "t_profit"
    /\ IF HasLabel(t, "profit_loss_percent")
       THEN models' = [models EXCEPT !["price_target"] =
                          Estimator("GradientBoostingRegressor", local[t].gen)]
       ELSE UNCHANGED models
    /\ local' = [local EXCEPT ![t].outcome = "returned"]
    /\ pc' = [pc EXCEPT ![t] = "done"]
    /\ UNCHANGED <<feature_columns, scalers, label_encoders, trainings, completed, serviceVars, backtestVars>>

TrainStep(t) ==
    \/ TrainPrepare(t)
    \/ TrainNewScaler(t)
    \/ TrainFitScaler(t)
    \/ TrainEncoder(t)
    \/ TrainDirection(t)
    \/ TrainSuccess(t)
    \/ TrainProfit(t)

\* the caller takes the result (or the exception) and is free again
Return(t) ==
    /\ pc[t] = "done"
    /\ completed' = IF local[t].op = "train" THEN completed + 1 ELSE completed
    /\ local' = [local EXCEPT ![t] = IdleLocal]
    /\ pc' = [pc EXCEPT ![t] = "idle"]
    /\ UNCHANGED <<ensembleVars, trainings, serviceVars, backtestVars>>

Next ==
    \E t \in Threads :
        \/ PredictStep(t)
        \/ TrainStep(t)
        \/ Return(t)

Spec == Init /\ [][Next]_vars

----------------------------------------------------------------------------
(* Properties of the ensemble, checked under Spec *)

NoTrainingRuns == trainings = completed

\* no train_models call overlapped the predict call of thread t
QuietCall(t) ==
    /\ local[t].settled
    /\ local[t].epoch = trainings
    /\ NoTrainingRuns

TrainedModels == {m \in ModelNames : models[m] # NoModel}

\* the Prediction fields of a set of trained models
PredictionFields(trained) ==
    (IF "price_direction" \in trained
        THEN {"direction", "direction_confidence"} ELSE {})
    \cup (IF "success_probability" \in trained THEN {"success_probability"} ELSE {})
    \cup (IF "price_target" \in trained THEN {"expected_profit_percent"} ELSE {})

\* C1: after a fit, the feature vector predict hands to the scaler has exactly
\* the columns recorded at fit time, in the fit-time order: a fit-time column
\* the input lacks is still there (filled with 0), none is dropped or reordered.
C1_InferenceColumnsAreFitColumns ==
    \A t \in Threads :
        (pc[t] = "p_transform" /\ QuietCall(t))
        => local[t].X = scalers.cols

\* C2: a predict call, whether it returns or raises, leaves the fitted state
\* (models, scaler, label encoders, feature-column list) unchanged.
C2_PredictLeavesFittedStateUnchanged ==
    [][(scalers.fitted /\ \E t \in Threads : PredictStep(t))
           => UNCHANGED ensembleVars]_vars

\* the predict call of thread t began on a trained ensemble at rest
CalledOnTrainedEnsemble(t) ==
    /\ local[t].op = "predict"
    /\ local[t].settled

\* C3: a predict call interleaved with a retrain observes the complete old or
\* the complete new state: the scaler and the models it reads come from one
\* training, and it never meets the new, still unfitted scaler.
C3_PredictSeesOneSnapshot ==
    \A t \in Threads :
        CalledOnTrainedEnsemble(t)
        => /\ Cardinality(local[t].seen) <= 1
           /\ local[t].error # "NotFittedError"

\* C4: with the scaler fitted (transform succeeded), predict returns without
\* raising for every subset of trained models, and the Prediction has exactly
\* the fields of the trained models.
C4_AnySubsetOfModelsPredicts ==
    \A t \in Threads :
        (/\ pc[t] = "done"
         /\ local[t].op = "predict"
         /\ local[t].seen # {}
         /\ QuietCall(t))
        => /\ local[t].outcome = "returned"
           /\ local[t].predictions = PredictionFields(TrainedModels)

----------------------------------------------------------------------------
(* The prediction service: predict_price_movement.  The ensemble and the   *)
(* sentiment analyzer are its collaborators: what ai_model.predict and     *)
(* analyze_current_sentiment return (or that they raise) and the hour of   *)
(* datetime.now() are drawn when the request is handled.                   *)

Directions == {"UP", "DOWN", "SIDEWAYS"}
Optional(S) == {<<>>} \cup {<<x>> : x \in S}

DirectionConfidences == {50, 70, 71, 75, 100}
SuccessProbabilities == {35, 39, 40, 80, 81}
CompoundScores == {-31, -30, 30, 31}
SentimentConfidences == {20, 80}
TopLevelVolatilities == {9, 10, 25, 26}
IndicatorVolatilities == {5, 30}
Hours == {0, 9, 14, 15, 16, 23}

\* the Prediction dicts, without expected_profit_percent, which the fusion
\* never reads
Predictions ==
    [direction : Optional(Directions),
     direction_confidence : Optional(DirectionConfidences),
     success_probability : Optional(SuccessProbabilities)]

SentimentScores ==
    [compound_score : Optional(CompoundScores),
     confidence : Optional(SentimentConfidences)]

\* sentiment_data as analyze_current_sentiment builds it before its try block
DefaultSentiment == [compound_score |-> <<0>>, confidence |-> <<50>>]

\* one call of analyze_current_sentiment: it raises to its caller (raised), or
\* a step inside its try block raises and is caught there (failed), or the
\* analysis completes with score
SentimentAttempts ==
    [raised : {TRUE}, failed : {TRUE}, score : {DefaultSentiment}]
    \cup [raised : {FALSE}, failed : {TRUE}, score : {DefaultSentiment}]
    \cup [raised : {FALSE}, failed : {FALSE}, score : SentimentScores]

\* what analyze_current_sentiment returns when it returns
analyze_current_sentiment(attempt) ==
    IF attempt.failed THEN DefaultSentiment ELSE attempt.score

Requests ==
    {Request(i, p, ind, v) :
        i \in Optional({"NIFTY"}), p \in Optional({25000}),
        ind \in Optional([volatility : Optional(IndicatorVolatilities)]),
        v \in Optional(TopLevelVolatilities)}

\* the first of required_fields that is not in data, or <<>>
MissingField(data) ==
    IF ~Has(data.indexName) THEN <<"indexName">>
    ELSE IF ~Has(data.currentPrice) THEN <<"currentPrice">>
    ELSE IF ~Has(data.indicators) THEN <<"indicators">>
    ELSE <<>>

\* the argument the handler gives generate_trading_recommendation as
\* market_data: the request data itself
RecommendationMarketData(data) == [volatility |-> data.volatility]

Respond(status, error) ==
    flow' = [flow EXCEPT !.stage = "responded", !.status = status, !.error = error]

predict_price_movement ==
    /\ flow.stage = "received"
    /\ LET data == flow.request
       IN  IF ~model_loaded
           THEN Respond(500, "AI models not loaded")
           ELSE IF Has(MissingField(data))
           THEN Respond(400, "Missing required field")
           ELSE \/ \* ai_model.predict raises
                   Respond(500, "Prediction failed")
                \/ \E predictions \in Predictions,
                      attempt \in SentimentAttempts,
                      hour \in Hours :
                      \* sentiment_score stays None when the call raises
                      LET sentiment_score ==
                              IF attempt.raised THEN <<>>
                              ELSE <<analyze_current_sentiment(attempt)>>
                      IN  flow' = [flow EXCEPT
                              !.stage = "responded",
                              !.predictions = <<predictions>>,
                              !.sentiment_failed = attempt.failed,
                              !.sentiment_score = sentiment_score,
                              !.hour = <<hour>>,
                              !.status = 200,
                              !.recommendation =
                                  <<generate_trading_recommendation(
                                        predictions, sentiment_score,
                                        RecommendationMarketData(data), hour)>>,
                              !.confidence =
                                  <<calculate_overall_confidence(
                                        predictions, sentiment_score)>>]
    /\ UNCHANGED <<ensembleVars, callVars, model_loaded, service, disk, backtestVars>>

InitFusion ==
    /\ InitEnsemble
    /\ model_loaded \in BOOLEAN
    /\ flow \in {Received(request) : request \in Requests}
    /\ InitDeployment
    /\ InitBacktester

NextFusion == predict_price_movement

SpecFusion == InitFusion /\ [][NextFusion]_vars

----------------------------------------------------------------------------
(* Properties of the signal fusion, checked under SpecFusion *)

Answered == flow.stage = "responded" /\ flow.status = 200
GivenPredictions == flow.predictions[1]
Recommendation == flow.recommendation[1]

CountAbout(reasoning, about) ==
    Cardinality({i \in 1..Len(reasoning) : reasoning[i].about = about})

Texts(reasoning) == [i \in 1..Len(reasoning) |-> reasoning[i].text]

\* the recommendation of the handled request, had its inputs been these
Recommend(predictions, sentiment_score, hour) ==
    generate_trading_recommendation(
        predictions, sentiment_score,
        RecommendationMarketData(flow.request), hour)

ConfidentDirection(predictions, direction) ==
    /\ predictions.direction = <<direction>>
    /\ Has(predictions.direction_confidence)
    /\ predictions.direction_confidence[1] > 70

\* C5: with no success probability and no sentiment, the action is BUY exactly
\* for direction UP with direction_confidence > 0.7, SELL exactly for DOWN with
\* direction_confidence > 0.7 and HOLD otherwise (0.7 itself and SIDEWAYS
\* included); a given direction appends exactly one direction reasoning entry;
\* UP at 0.75 gives BUY, confidence >= 0.5 and an entry mentioning "upward".
C5_DirectionDecidesAction ==
    (/\ Answered
     /\ ~Has(GivenPredictions.success_probability)
     /\ ~Truthy(flow.sentiment_score))
    => LET p == GivenPredictions
           rec == Recommendation
           up == ConfidentDirection(p, "UP")
           down == ConfidentDirection(p, "DOWN")
       IN  /\ rec.action = "BUY" <=> up
           /\ rec.action = "SELL" <=> down
           /\ rec.action = "HOLD" <=> (~up /\ ~down)
           /\ CountAbout(rec.reasoning, "direction")
                  = (IF Has(p.direction) THEN 1 ELSE 0)
           /\ (p.direction = <<"UP">> /\ p.direction_confidence = <<75>>)
                  => /\ rec.action = "BUY"
                     /\ rec.confidence >= 50
                     /\ rec.reasoning[1].text = "AI predicts upward movement"

C5_Witness ==
    /\ Answered
    /\ ~Has(GivenPredictions.success_probability)
    /\ ~Truthy(flow.sentiment_score)
    /\ GivenPredictions.direction = <<"UP">>
    /\ GivenPredictions.direction_confidence = <<75>>
    /\ Recommendation.action = "BUY"

\* C6: a success_probability below 0.4 forces the final action to HOLD with a
\* final confidence of at most 0.5, whatever the direction and the sentiment;
\* one above 0.8 adds 0.3 to the confidence and keeps the action; one in
\* [0.4, 0.8] changes neither action nor confidence and appends no reasoning.
C6_SuccessProbabilityRule ==
    (Answered /\ Has(GivenPredictions.success_probability))
    => LET p == GivenPredictions
           rec == Recommendation
           success_prob == p.success_probability[1]
           without == Recommend([p EXCEPT !.success_probability = <<>>],
                                flow.sentiment_score, flow.hour[1])
       IN  /\ success_prob < 40
                  => /\ rec.action = "HOLD"
                     /\ rec.confidence <= 50
           /\ success_prob > 80
                  => /\ rec.action = without.action
                     /\ rec.confidence = without.confidence + 30
                     /\ CountAbout(rec.reasoning, "success") = 1
           /\ (success_prob >= 40 /\ success_prob <= 80)
                  => /\ rec.action = without.action
                     /\ rec.confidence = without.confidence
                     /\ Texts(rec.reasoning) = Texts(without.reasoning)

C6_Witness ==
    /\ Answered
    /\ GivenPredictions.success_probability = <<35>>
    /\ ConfidentDirection(GivenPredictions, "UP")
    /\ Truthy(flow.sentiment_score)
    /\ Recommendation.action = "HOLD"
    /\ Recommendation.confidence = 20

\* C7: a present sentiment score never changes the action; the confidence is
\* 0.1 higher than without it exactly when compound_score > 0.3 and the action
\* is BUY, or compound_score < -0.3 and the action is SELL, and is the same
\* otherwise; exactly one sentiment reasoning entry is appended whenever
\* |compound_score| > 0.3, also when the confidence is not changed.
C7_SentimentRule ==
    (Answered /\ Truthy(flow.sentiment_score))
    => LET rec == Recommendation
           compound == Get(flow.sentiment_score[1].compound_score, 0)
           without == Recommend(GivenPredictions, <<>>, flow.hour[1])
           boosted == \/ compound > 30 /\ rec.action = "BUY"
                      \/ compound < -30 /\ rec.action = "SELL"
       IN  /\ rec.action = without.action
           /\ rec.confidence
                  = (IF boosted THEN without.confidence + 10 ELSE without.confidence)
           /\ CountAbout(rec.reasoning, "sentiment")
                  = (IF compound > 30 \/ compound < -30 THEN 1 ELSE 0)

C7_Witness ==
    /\ Answered
    /\ Truthy(flow.sentiment_score)
    /\ flow.sentiment_score[1].compound_score = <<31>>
    /\ Recommendation.action = "SELL"
    /\ Recommendation.confidence = 50
    /\ CountAbout(Recommendation.reasoning, "sentiment") = 1

LateSession(multiplier, hour) ==
    IF hour >= 15 THEN (multiplier * 8) \div 10 ELSE multiplier

\* C8: a request whose indicators carry volatility v is answered with risk_level
\* HIGH and multiplier 0.7 when v > 0.25, LOW and 1.3 when v < 0.10, MEDIUM and
\* 1.0 otherwise (the multiplier before the late-session factor).
C8_SnapshotVolatilitySetsRisk ==
    (/\ Answered
     /\ Has(flow.request.indicators)
     /\ Has(flow.request.indicators[1].volatility))
    => LET v == flow.request.indicators[1].volatility[1]
           rec == Recommendation
           risk == IF v > 25 THEN "HIGH" ELSE IF v < 10 THEN "LOW" ELSE "MEDIUM"
           multiplier == IF v > 25 THEN 70 ELSE IF v < 10 THEN 130 ELSE 100
       IN  /\ rec.risk_level = risk
           /\ rec.position_size = LateSession(multiplier, flow.hour[1])

\* C9: at an hour of 15 or later the multiplier the volatility step chose is
\* multiplied by 0.8 and one market-close reasoning entry is appended last, for
\* every action; before 15 neither happens; action, confidence and risk_level
\* are those of any other hour.
C9_LateSessionRule ==
    Answered
    => LET rec == Recommendation
           hour == flow.hour[1]
           early == Recommend(GivenPredictions, flow.sentiment_score, 0)
           n == Len(rec.reasoning)
       IN  /\ early.position_size \in {70, 100, 130}
           /\ CountAbout(early.reasoning, "time") = 0
           /\ rec.action = early.action
           /\ rec.confidence = early.confidence
           /\ rec.risk_level = early.risk_level
           /\ hour >= 15
                  => /\ rec.position_size * 10 = early.position_size * 8
                     /\ n = Len(early.reasoning) + 1
                     /\ rec.reasoning[n].about = "time"
                     /\ CountAbout(rec.reasoning, "time") = 1
           /\ hour < 15
                  => /\ rec.position_size = early.position_size
                     /\ Texts(rec.reasoning) = Texts(early.reasoning)

C9_Witness ==
    /\ Answered
    /\ flow.hour = <<15>>
    /\ Recommendation.action = "HOLD"
    /\ Recommendation.risk_level = "HIGH"
    /\ Recommendation.position_size = 56

\* C10: the overall confidence is the arithmetic mean of exactly those of
\* direction_confidence, success_probability and sentiment.confidence that are
\* present, in each of the 8 presence combinations, and 0.5 when none is.
C10_OverallConfidenceIsMean ==
    Answered
    => LET p == GivenPredictions
           sentiment_confidence ==
               IF Has(flow.sentiment_score)
                  THEN flow.sentiment_score[1].confidence ELSE <<>>
           present == p.direction_confidence \o p.success_probability
                          \o sentiment_confidence
           total == Get(p.direction_confidence, 0) + Get(p.success_probability, 0)
                        + Get(sentiment_confidence, 0)
           overall == flow.confidence[1]
       IN  /\ overall.den > 0
           /\ IF Len(present) = 0
                 THEN overall.num = 50 * overall.den
                 ELSE overall.num * Len(present) = total * overall.den

C10_Witness ==
    /\ Answered
    /\ GivenPredictions.direction_confidence = <<75>>
    /\ ~Has(GivenPredictions.success_probability)
    /\ Has(flow.sentiment_score)
    /\ flow.sentiment_score[1].confidence = <<20>>
    /\ flow.confidence[1].num * 2 = 95 * flow.confidence[1].den
    /\ Recommendation.confidence = 50

\* C11: when the sentiment collaborator fails during a request (the call raises,
\* or a step inside analyze_current_sentiment fails), the request succeeds and
\* the recommendation and the overall confidence are those of an absent
\* sentiment score.
C11_FailedSentimentIsAbsent ==
    (flow.stage = "responded" /\ flow.sentiment_failed)
    => /\ flow.status = 200
       /\ Recommendation = Recommend(GivenPredictions, <<>>, flow.hour[1])
       /\ LET overall == flow.confidence[1]
              absent == calculate_overall_confidence(GivenPredictions, <<>>)
          IN  overall.num * absent.den = absent.num * overall.den

\* the recommendation of the handled request, had direction_confidence been dc
WithDirectionConfidence(dc) ==
    Recommend([GivenPredictions EXCEPT !.direction_confidence = dc],
              flow.sentiment_score, flow.hour[1])

ConfidenceValues == {20, 50, 60, 80, 90}

\* C30 (as stated): the recommendation's confidence is one of 0.2, 0.5, 0.6,
\* 0.8, 0.9, a HOLD recommendation never has the sentiment boost, and the
\* confidence is the same for every direction_confidence.
C30_ConfidenceIgnoresDirectionConfidence ==
    Answered
    => /\ Recommendation.confidence \in ConfidenceValues
       /\ Recommendation.action = "HOLD"
              => Recommendation.confidence
                     = Recommend(GivenPredictions, <<>>, flow.hour[1]).confidence
       /\ \A dc \in Optional(DirectionConfidences) :
              WithDirectionConfidence(dc).confidence = Recommendation.confidence

\* C30 (amended): the recommendation's confidence is one of 0.2, 0.5, 0.6, 0.8,
\* 0.9, a HOLD recommendation never has the sentiment boost, and the
\* confidence depends on direction_confidence only through the action: it is
\* the same for every direction_confidence that gives the same action.
C30_ConfidenceValues ==
    Answered
    => /\ Recommendation.confidence \in ConfidenceValues
       /\ Recommendation.action = "HOLD"
              => Recommendation.confidence
                     = Recommend(GivenPredictions, <<>>, flow.hour[1]).confidence
       /\ \A dc \in Optional(DirectionConfidences) :
              WithDirectionConfidence(dc).action = Recommendation.action
              => WithDirectionConfidence(dc).confidence = Recommendation.confidence

C30_Witness ==
    /\ Answered
    /\ GivenPredictions.direction = <<"UP">>
    /\ GivenPredictions.direction_confidence = <<75>>
    /\ GivenPredictions.success_probability = <<81>>
    /\ Truthy(flow.sentiment_score)
    /\ flow.sentiment_score[1].compound_score = <<31>>
    /\ Recommendation.action = "BUY"
    /\ Recommendation.confidence = 90
    /\ WithDirectionConfidence(<<70>>).confidence = 80

----------------------------------------------------------------------------
(* The backtester's functions, each called once on an input drawn from     *)
(* bounded sets.                                                           *)

MaxTrades == 4       \* longest trade list given to calculate_backtest_results

RsiValues == {30, 31, 69, 70}
EmaValues == {9999, 10000, 10001}
MomentumValues == {-6, -5, 5, 6}
Prices == {10000}
AiConfidences == {60, 70, 71, 80, 81, 90}
EntryConfidences == {0, 10, 60, 81, 95, 100}
ReturnValues == {-400, -300, 0, 500, 600}
Durations == {30}

IndicatorValues ==
    {NotADict} \cup {Indicators(rsi, ema, momentum) :
                        rsi \in Optional(RsiValues), ema \in Optional(EmaValues),
                        momentum \in Optional(MomentumValues)}

AiPredictions ==
    {NoPrediction}
    \cup {Prediction(p) : p \in [direction : Optional(Directions),
                                direction_confidence : Optional(AiConfidences),
                                success_probability : Optional({50})]}

ProbeRows ==
    {Row(price, indicators, NoPrediction) :
        price \in Optional(Prices), indicators \in Optional(IndicatorValues)}

TradeLists ==
    UNION {[1..n -> [profit_loss_percent : ReturnValues,
                     duration_minutes : Durations]] : n \in 0..MaxTrades}

ProbeInputs ==
    [kind : {"technical"}, row : ProbeRows]
    \cup [kind : {"combine"}, row : ProbeRows, ai_prediction : AiPredictions]
    \cup [kind : {"outcome"}, direction : {"UP", "DOWN"},
          confidence : EntryConfidences, rng : RngStates]
    \cup [kind : {"results"}, trades : TradeLists]

Call(input) == [kind |-> input.kind, called |-> FALSE, input |-> input, output |-> <<>>]

Returned(kind, value) ==
    /\ probe.kind = kind
    /\ ~probe.called
    /\ probe' = [probe EXCEPT !.called = TRUE, !.output = <<value>>]
    /\ UNCHANGED <<ensembleVars, callVars, serviceVars, backtest>>

TechnicalSignalCall ==
    /\ probe.kind = "technical"
    /\ Returned("technical", should_generate_technical_signal(probe.input.row))

CombineCall ==
    /\ probe.kind = "combine"
    /\ Returned("combine", combine_technical_ai_signals(probe.input.row,
                                                       probe.input.ai_prediction))

\* the prices simulate_trade passes for an entry at 10000
OutcomeCall ==
    /\ probe.kind = "outcome"
    /\ LET up == probe.input.direction = "UP"
       IN  Returned("outcome",
                    simulate_trade_outcome(10000,
                                           IF up THEN 13000 ELSE 7000,
                                           IF up THEN 8000 ELSE 12000,
                                           probe.input.confidence,
                                           probe.input.rng))

ResultsCall ==
    /\ probe.kind = "results"
    /\ Returned("results", calculate_backtest_results(probe.input.trades, "Probe"))

InitRules ==
    /\ InitEnsemble
    /\ model_loaded = FALSE
    /\ flow = Received(NoRequest)
    /\ InitDeployment
    /\ probe \in {Call(input) : input \in ProbeInputs}
    /\ backtest = Backtester(0)

NextRules == TechnicalSignalCall \/ CombineCall \/ OutcomeCall \/ ResultsCall

SpecRules == InitRules /\ [][NextRules]_vars

----------------------------------------------------------------------------
(* Properties of the backtester's functions, checked under SpecRules *)

Called(kind) == probe.kind = kind /\ probe.called
Output == probe.output[1]

\* the row has a price and an indicator dict with rsi, ema and momentum
FullRow(row) ==
    /\ Has(row.price)
    /\ Has(row.indicators)
    /\ row.indicators[1].is_dict
    /\ Has(row.indicators[1].rsi)
    /\ Has(row.indicators[1].ema)
    /\ Has(row.indicators[1].momentum)

\* the row cannot be evaluated: its indicators are no dict, or it has no price
Unevaluable(row) ==
    \/ ~Has(row.price)
    \/ Has(row.indicators) /\ ~row.indicators[1].is_dict

\* C12: should_generate_technical_signal is true exactly when 30 < rsi < 70 and
\* either momentum > 0.005 with price > ema or momentum < -0.005 with
\* price < ema (so false at rsi 30 and 70, |momentum| 0.005 and price = ema),
\* and it is false when the row cannot be evaluated.
C12_TechnicalEntryRule ==
    Called("technical")
    => LET row == probe.input.row
       IN  /\ FullRow(row)
              => LET rsi == row.indicators[1].rsi[1]
                     ema == row.indicators[1].ema[1]
                     momentum == row.indicators[1].momentum[1]
                     price == row.price[1]
                 IN  Output <=> /\ 30 < rsi /\ rsi < 70
                                /\ \/ momentum > 5 /\ price > ema
                                   \/ momentum < -5 /\ price < ema
           /\ Unevaluable(row) => Output = FALSE

C12_Witness ==
    /\ Called("technical")
    /\ FullRow(probe.input.row)
    /\ probe.input.row.indicators[1].rsi = <<69>>
    /\ probe.input.row.indicators[1].momentum = <<-6>>
    /\ probe.input.row.indicators[1].ema = <<10001>>
    /\ Output = TRUE

\* C13: for a row with a technical signal, combine_technical_ai_signals sets
\* should_trade exactly when the technical flag agrees with the predicted
\* direction (bullish with UP, bearish with DOWN) or the direction confidence
\* exceeds 0.8.
C13_AgreementOrOverride ==
    (/\ Called("combine")
     /\ FullRow(probe.input.row)
     /\ should_generate_technical_signal(probe.input.row)
     /\ probe.input.ai_prediction.returned
     /\ Has(probe.input.ai_prediction.direction)
     /\ Has(probe.input.ai_prediction.direction_confidence))
    => LET ai == probe.input.ai_prediction
           bullish == probe.input.row.indicators[1].momentum[1] > 5
           agree == /\ ai.returned
                    /\ \/ bullish /\ ai.direction = <<"UP">>
                       \/ ~bullish /\ ai.direction = <<"DOWN">>
           override == /\ ai.returned
                       /\ Has(ai.direction_confidence)
                       /\ ai.direction_confidence[1] > 80
       IN  Output.should_trade <=> (agree \/ override)

\* C15: with entry confidence c and draw r, the outcome is TARGET_HIT exactly
\* when r < 0.7 c, else STOP_LOSS_HIT exactly when r < 0.7 c + 0.6 (1 - 0.7 c),
\* else MANUAL_EXIT.
C15_OutcomeProbabilities ==
    Called("outcome")
    => LET target == TargetProbability(probe.input.confidence)
           r == probe.input.rng
           hit == r * 10000 < target * RngModulus
           stopped == r * 100000 < (10 * target + 6 * (10000 - target)) * RngModulus
       IN  Output.result = (IF hit THEN "TARGET_HIT"
                            ELSE IF stopped THEN "STOP_LOSS_HIT"
                            ELSE "MANUAL_EXIT")

GivenReturns == Returns(probe.input.trades)

CountWhere(returns, Test(_)) ==
    Cardinality({i \in 1..Len(returns) : Test(returns[i])})

\* C17: for a non-empty trade list a trade is winning exactly when its
\* profit_loss_percent > 0 and losing otherwise (0 is losing), so winning +
\* losing = total, win_rate = 100 * winning / total, and net_profit =
\* total_profit - total_loss is the sum of all profit_loss_percent values.
C17_WinLossPartition ==
    (Called("results") /\ probe.input.trades # <<>>)
    => LET r == Output
           Positive(x) == x > 0
           NotPositive(x) == ~(x > 0)
       IN  /\ r.total_trades = Len(probe.input.trades)
           /\ r.winning_trades = CountWhere(GivenReturns, Positive)
           /\ r.losing_trades = CountWhere(GivenReturns, NotPositive)
           /\ r.winning_trades + r.losing_trades = r.total_trades
           /\ r.win_rate.den > 0
           /\ r.win_rate.num * r.total_trades = 100 * r.winning_trades * r.win_rate.den
           /\ r.net_profit = r.total_profit - r.total_loss
           /\ r.net_profit = SumSeq(GivenReturns)

C17_Witness ==
    /\ Called("results")
    /\ GivenReturns = <<0, 500>>
    /\ Output.winning_trades = 1
    /\ Output.losing_trades = 1
    /\ Output.net_profit = 500

\* C18: max_drawdown is the minimum over positions i of the cumulative sum up to
\* i minus the largest cumulative sum up to and including i; it is never
\* positive, 0 when the cumulative sum never falls below an earlier value, and
\* -7 for the returns 5, -3, -4, 6.
C18_MaxDrawdown ==
    (Called("results") /\ probe.input.trades # <<>>)
    => LET returns == GivenReturns
           n == Len(returns)
           Cum(i) == SumSeq(SubSeq(returns, 1, i))
           Peak(i) == CHOOSE c \in {Cum(j) : j \in 1..i} :
                          \A j \in 1..i : Cum(j) <= c
           drawdowns == {Cum(i) - Peak(i) : i \in 1..n}
           max_drawdown == Output.max_drawdown
       IN  /\ max_drawdown \in drawdowns
           /\ \A d \in drawdowns : max_drawdown <= d
           /\ max_drawdown <= 0
           /\ (\A i \in 1..n : \A j \in 1..i : Cum(j) <= Cum(i)) => max_drawdown = 0
           /\ returns = <<500, -300, -400, 600>> => max_drawdown = -700

C18_Witness ==
    /\ Called("results")
    /\ GivenReturns = <<500, -300, -400, 600>>
    /\ Output.max_drawdown = -700

SumOfLosing(returns) ==
    LET NotPositive(x) == ~(x > 0)
        total == SumSeq(SelectSeq(returns, NotPositive))
    IN  IF total < 0 THEN -total ELSE total

SumOfWinning(returns) ==
    LET Positive(x) == x > 0
    IN  SumSeq(SelectSeq(returns, Positive))

SingleWin ==
    (Len(GivenReturns) = 1 /\ GivenReturns[1] > 0)
    => /\ Output.win_rate.num = 100 * Output.win_rate.den
       /\ Output.losing_trades = 0
       /\ Output.profit_factor = Infinity

\* C19 as stated: profit_factor is the summed winning percent over the absolute
\* summed losing percent whenever the list contains a losing trade, and
\* infinite when it contains none; a single winning trade gives win_rate 100,
\* losing_trades 0 and an infinite profit_factor.
C19_ProfitFactorWithAnyLosingTrade ==
    (Called("results") /\ probe.input.trades # <<>>)
    => LET factor == Output.profit_factor
       IN  /\ Output.losing_trades > 0
              => /\ factor.den # 0
                 /\ factor.num * SumOfLosing(GivenReturns)
                        = SumOfWinning(GivenReturns) * factor.den
           /\ Output.losing_trades = 0 => factor = Infinity
           /\ SingleWin

\* C19 amended: profit_factor is the summed winning percent over the absolute
\* summed losing percent whenever some trade has a negative profit_loss_percent,
\* and infinite when none has, also when trades at exactly 0 are counted as
\* losing; a single winning trade gives win_rate 100, losing_trades 0 and an
\* infinite profit_factor.
C19_ProfitFactorWithNegativeTrade ==
    (Called("results") /\ probe.input.trades # <<>>)
    => LET factor == Output.profit_factor
           negative == \E i \in 1..Len(GivenReturns) : GivenReturns[i] < 0
       IN  /\ negative
              => /\ factor.den # 0
                 /\ factor.num * SumOfLosing(GivenReturns)
                        = SumOfWinning(GivenReturns) * factor.den
           /\ ~negative => factor = Infinity
           /\ SingleWin

C19_Witness ==
    /\ Called("results")
    /\ GivenReturns = <<500, 0>>
    /\ Output.losing_trades = 1
    /\ Output.profit_factor = Infinity

----------------------------------------------------------------------------
(* Strategy runs.  A caller may seed np.random, then runs one strategy     *)
(* over the snapshot rows; the first run fixes the strategy and the rows,  *)
(* later runs repeat them.                                                 *)

MaxRows == 2         \* snapshot rows of a run
MaxRuns == 2         \* strategy runs in one behaviour

Seeds == {1, 4}
Strategies == {"TECHNICAL_ONLY", "AI_ENHANCED", "AI_ONLY"}

StrategyName(strategy) ==
    CASE strategy = "TECHNICAL_ONLY" -> "Technical Only"
      [] strategy = "AI_ENHANCED" -> "AI Enhanced"
      [] OTHER -> "AI Only"

\* what the ensemble answers for a row: None when predict raises, else a
\* prediction with or without a direction
StrategyPredictions ==
    [none |-> NoPrediction,
     success |-> Prediction([direction |-> <<>>, direction_confidence |-> <<>>,
                             success_probability |-> <<50>>]),
     up |-> Prediction([direction |-> <<"UP">>, direction_confidence |-> <<90>>,
                        success_probability |-> <<>>]),
     down |-> Prediction([direction |-> <<"DOWN">>, direction_confidence |-> <<75>>,
                          success_probability |-> <<>>]),
     sideways |-> Prediction([direction |-> <<"SIDEWAYS">>,
                              direction_confidence |-> <<90>>,
                              success_probability |-> <<>>])]

\* rows with a bullish, a bearish and no technical signal, each with some of
\* the predictions
StrategyRows ==
    {Row(<<10000>>, <<Indicators(<<50>>, <<9999>>, <<6>>)>>, StrategyPredictions[ai]) :
        ai \in {"none", "success", "up", "down", "sideways"}}
    \cup {Row(<<10000>>, <<Indicators(<<50>>, <<10001>>, <<-6>>)>>, StrategyPredictions[ai]) :
        ai \in {"none", "down"}}
    \cup {Row(<<10000>>, <<Indicators(<<50>>, <<10000>>, <<0>>)>>, StrategyPredictions[ai]) :
        ai \in {"none", "up"}}

get_ai_prediction_for_backtest(row) == row.ai

\* the caller seeds the process-wide generator
Seed(seed) ==
    /\ backtest.stage = "idle"
    /\ Len(backtest.log) < MaxRuns
    /\ backtest' = [backtest EXCEPT
                       !.rng = np_random_seed(backtest.rng, seed),
                       !.pending_seed = <<seed>>]
    /\ UNCHANGED <<ensembleVars, callVars, serviceVars, probe>>

\* a backtest_*_strategy call: trades = []
StartRun(strategy) ==
    /\ backtest.stage = "idle"
    /\ Len(backtest.log) < MaxRuns
    /\ backtest.strategy \in {"none", strategy}
    /\ backtest' = [backtest EXCEPT
                       !.stage = "running",
                       !.strategy = strategy,
                       !.seeds = Append(@, backtest.pending_seed),
                       !.pending_seed = <<>>,
                       !.i = 1,
                       !.trades = <<>>]
    /\ UNCHANGED <<ensembleVars, callVars, serviceVars, probe>>

\* the signal a strategy has for a row: whether it trades, and signal_data
StrategySignal(strategy, row) ==
    CASE strategy = "TECHNICAL_ONLY" ->
             [trade |-> should_generate_technical_signal(row), data |-> <<>>]
      [] strategy = "AI_ENHANCED" ->
             LET enhanced == combine_technical_ai_signals(
                                 row, get_ai_prediction_for_backtest(row))
             IN  [trade |-> /\ should_generate_technical_signal(row)
                            /\ enhanced.should_trade,
                  data |-> <<enhanced>>]
      [] OTHER ->
             LET ai_prediction == get_ai_prediction_for_backtest(row)
             IN  [trade |-> ai_only_signal(ai_prediction),
                  data |-> <<ai_prediction>>]

\* one iteration of the loop over data.iterrows()
Iterate(row) ==
    LET signal == StrategySignal(backtest.strategy, row)
        simulated == simulate_trade(row, backtest.i, backtest.strategy,
                                    signal.data, backtest.rng)
    IN  IF signal.trade
        THEN backtest' = [backtest EXCEPT
                             !.i = @ + 1,
                             !.data = IF backtest.i > Len(@) THEN Append(@, row) ELSE @,
                             !.trades = @ \o simulated.trade,
                             !.rng = simulated.rng]
        ELSE backtest' = [backtest EXCEPT
                             !.i = @ + 1,
                             !.data = IF backtest.i > Len(@) THEN Append(@, row) ELSE @]

\* the first run reads a new row, a later run the same rows again
NextRow ==
    /\ backtest.stage = "running"
    /\ IF backtest.log = <<>>
       THEN /\ Len(backtest.data) < MaxRows
            /\ \E row \in StrategyRows : Iterate(row)
       ELSE /\ backtest.i <= Len(backtest.data)
            /\ Iterate(backtest.data[backtest.i])
    /\ UNCHANGED <<ensembleVars, callVars, serviceVars, probe>>

\* the loop is over: return self.calculate_backtest_results(trades, name)
Finish ==
    /\ backtest.stage = "running"
    /\ backtest.log # <<>> => backtest.i > Len(backtest.data)
    /\ backtest' = [backtest EXCEPT
                       !.stage = "idle",
                       !.log = Append(@, backtest.trades),
                       !.results = Append(@, calculate_backtest_results(
                                                 backtest.trades,
                                                 StrategyName(backtest.strategy)))]
    /\ UNCHANGED <<ensembleVars, callVars, serviceVars, probe>>

\* the generator starts from the entropy of the operating system
InitBacktest ==
    /\ InitEnsemble
    /\ model_loaded = FALSE
    /\ flow = Received(NoRequest)
    /\ InitDeployment
    /\ probe = NoProbe
    /\ backtest \in {Backtester(rng) : rng \in RngStates}

NextBacktest ==
    \/ \E seed \in Seeds : Seed(seed)
    \/ \E strategy \in Strategies : StartRun(strategy)
    \/ NextRow
    \/ Finish

SpecBacktest == InitBacktest /\ [][NextBacktest]_vars

----------------------------------------------------------------------------
(* Properties of the strategy runs, checked under SpecBacktest *)

FinishedRuns == 1..Len(backtest.log)

\* the rows for which the ensemble's prediction has a direction confidence
\* above 0.7
ConfidentRows ==
    {i \in 1..Len(backtest.data) :
        LET ai == backtest.data[i].ai
        IN  /\ ai.returned
            /\ Has(ai.direction_confidence)
            /\ ai.direction_confidence[1] > 70}

\* C14: a finished model-only run has opened a trade for exactly the rows whose
\* prediction has a direction confidence above 0.7, each with the predicted
\* direction and the direction confidence as its entry confidence.
C14_ModelOnlyRule ==
    \A k \in FinishedRuns :
        backtest.strategy = "AI_ONLY"
        => LET trades == backtest.log[k]
           IN  /\ {trades[j].timestamp : j \in 1..Len(trades)} = ConfidentRows
               /\ \A j \in 1..Len(trades) :
                      LET ai == backtest.data[trades[j].timestamp].ai
                      IN  /\ <<trades[j].direction>> = ai.direction
                          /\ <<trades[j].confidence>> = ai.direction_confidence

IsZero(x) == x.num = 0 /\ x.den # 0

\* C20: a finished run that opened no trade reports a BacktestResult whose
\* numeric fields are all 0, profit_factor included.
C20_NoTradeAllZero ==
    \A k \in FinishedRuns :
        backtest.log[k] = <<>>
        => LET r == backtest.results[k]
           IN  /\ r.total_trades = 0
               /\ r.winning_trades = 0
               /\ r.losing_trades = 0
               /\ IsZero(r.win_rate)
               /\ r.total_profit = 0
               /\ r.total_loss = 0
               /\ r.net_profit = 0
               /\ r.max_drawdown = 0
               /\ IsZero(r.sharpe_ratio)
               /\ IsZero(r.avg_trade_duration)
               /\ r.best_trade = 0
               /\ r.worst_trade = 0
               /\ IsZero(r.profit_factor)

C20_Witness ==
    /\ Len(backtest.log) >= 1
    /\ backtest.strategy = "TECHNICAL_ONLY"
    /\ Len(backtest.data) = 2
    /\ backtest.log[1] = <<>>
    /\ backtest.results[1].strategy_name = "Technical Only"
    /\ IsZero(backtest.results[1].profit_factor)

\* the trades of the finished runs and of the run in progress
AllTrades ==
    Range(backtest.trades) \cup UNION {Range(backtest.log[k]) : k \in FinishedRuns}

\* C26: for every simulated trade with direction UP or DOWN, outcome
\* TARGET_HIT implies profit_loss_percent > 0 (a winning trade) and outcome
\* STOP_LOSS_HIT implies profit_loss_percent < 0 (a losing trade).
C26_OutcomeSignMatchesResult ==
    \A trade \in AllTrades :
        trade.direction \in {"UP", "DOWN"}
        => /\ trade.outcome = "TARGET_HIT"
              => /\ trade.profit_loss_percent > 0
                 /\ IsWinning(trade.profit_loss_percent)
           /\ trade.outcome = "STOP_LOSS_HIT"
              => /\ trade.profit_loss_percent < 0
                 /\ IsLosing(trade.profit_loss_percent)

\* C27: every trade of a strategy run has direction UP or DOWN, with target
\* above and stop below the entry for UP, target below and stop above for DOWN.
C27_TradesAreDirectional ==
    \A trade \in AllTrades :
        /\ trade.direction \in {"UP", "DOWN"}
        /\ trade.direction = "UP"
           => /\ trade.target_price > trade.entry_price
              /\ trade.stop_loss_price < trade.entry_price
        /\ trade.direction = "DOWN"
           => /\ trade.target_price < trade.entry_price
              /\ trade.stop_loss_price > trade.entry_price

----------------------------------------------------------------------------
(* Feature engineering and the direction model's training, as functions    *)
(* called once on an input drawn from bounded sets.                        *)

MaxSamples == 5      \* most training examples given to the cross-validation

\* a float column's NaN is 0/0; a non-zero value divided by 0 is infinite
IsNaN(x) == x.num = 0 /\ x.den = 0

\* .fillna(0): NaN becomes 0, every other value stays
fillna(x) == IF IsNaN(x) THEN Zero ELSE x

\* (price - bollingerBands.lower) / (bollingerBands.upper - bollingerBands.lower)
bb_position(price, lower, upper) == Fraction(price - lower, upper - lower)

\* is_opening_hour and is_closing_hour as engineer_features computes them
engineer_features_windows(hour) ==
    [is_opening_hour |-> hour >= 9 /\ hour < 11,
     is_closing_hour |-> hour >= 14 /\ hour < 16]

\* as prepare_market_data_for_prediction computes them from now.hour
prepare_market_data_windows(hour) ==
    [is_opening_hour |-> 9 <= hour /\ hour < 11,
     is_closing_hour |-> 14 <= hour /\ hour < 16]

\* as get_ai_prediction_for_backtest computes them from row.get('hour', 10)
backtest_windows(hour) ==
    [is_opening_hour |-> hour < 11,
     is_closing_hour |-> hour > 14]

\* the timestamps of the snapshots of one index, in ascending order
SnapshotTimes == <<10, 20, 30, 40>>

\* time_diff.idxmin(): the first snapshot nearest to the entry time
ClosestSnapshot(entryTime) ==
    LET diff(i) == IF SnapshotTimes[i] > entryTime
                      THEN SnapshotTimes[i] - entryTime
                      ELSE entryTime - SnapshotTimes[i]
        nearest == {i \in 1..Len(SnapshotTimes) :
                       \A j \in 1..Len(SnapshotTimes) : diff(i) <= diff(j)}
    IN  SnapshotTimes[MinOf(nearest)]

\* the timestamp column of result_df: one row per outcome, in the order of
\* outcomes_df
create_target_variables(entryTimes) ==
    [i \in 1..Len(entryTimes) |-> ClosestSnapshot(entryTimes[i])]

\* TimeSeriesSplit(n_splits).split(X): per fold the positions (from 1) of the
\* training and of the validation rows
TimeSeriesSplit(n_splits, n_samples) ==
    LET test_size == n_samples \div (n_splits + 1)
    IN  [k \in 1..n_splits |->
            LET test_start == n_samples - (n_splits - k + 1) * test_size
            IN  [train_idx |-> 1..test_start,
                 val_idx |-> (test_start + 1)..(test_start + test_size)]]

\* train_direction_model on the rows of result_df: the folds it validates on
\* and the model it keeps for the candidates' average scores
train_direction_model(timestamps, rfScore, gbScore) ==
    [timestamps |-> timestamps,
     folds |-> TimeSeriesSplit(3, Len(timestamps)),
     best_model |-> BestModel(rfScore, gbScore)]

BandValues == {99, 100, 101}
EntryTimes == {11, 19, 25, 38}

FeatureInputs ==
    [kind : {"bb_position"}, price : BandValues, lower : BandValues,
     upper : BandValues]
    \cup [kind : {"windows"}, caller : {"service", "backtest"}, hour : 0..23]
    \cup [kind : {"direction"},
          entryTimes : UNION {[1..n -> EntryTimes] : n \in 4..MaxSamples},
          rfScore : {1}, gbScore : {2}]
    \cup [kind : {"direction"}, entryTimes : {<<11, 19, 25, 38>>},
          rfScore : ScoreValues, gbScore : ScoreValues]

\* the bb_position entry of the feature matrix X = df[available_cols].fillna(0)
BollingerCall ==
    /\ probe.kind = "bb_position"
    /\ Returned("bb_position",
                fillna(bb_position(probe.input.price, probe.input.lower,
                                   probe.input.upper)))

\* the window flags of the market_data handed to ai_model.predict
WindowsCall ==
    /\ probe.kind = "windows"
    /\ Returned("windows",
                IF probe.input.caller = "service"
                THEN prepare_market_data_windows(probe.input.hour)
                ELSE backtest_windows(probe.input.hour))

\* engineer_features (create_target_variables) and train_direction_model
DirectionModelCall ==
    /\ probe.kind = "direction"
    /\ Returned("direction",
                train_direction_model(
                    create_target_variables(probe.input.entryTimes),
                    probe.input.rfScore, probe.input.gbScore))

InitFeatures ==
    /\ InitEnsemble
    /\ model_loaded = FALSE
    /\ flow = Received(NoRequest)
    /\ InitDeployment
    /\ probe \in {Call(input) : input \in FeatureInputs}
    /\ backtest = Backtester(0)

NextFeatures == BollingerCall \/ WindowsCall \/ DirectionModelCall

SpecFeatures == InitFeatures /\ [][NextFeatures]_vars

----------------------------------------------------------------------------
(* Properties of the feature functions, checked under SpecFeatures *)

\* C21: the bb_position entry of the feature vector is
\* (price - lower) / (upper - lower) when upper differs from lower and 0 when
\* upper equals lower; it is never infinite or undefined.
C21_BollingerPositionGuarded ==
    Called("bb_position")
    => LET price == probe.input.price
           lower == probe.input.lower
           upper == probe.input.upper
       IN  /\ Output.den # 0
           /\ upper # lower
                  => Output.num * (upper - lower) = (price - lower) * Output.den
           /\ upper = lower => IsZero(Output)

\* C22: train_direction_model keeps the candidate with the highest average
\* validation score (the first of them on a tie), whatever the scores; a
\* model is always kept.
C22_BestCandidateKept ==
    Called("direction")
    => LET rfScore == probe.input.rfScore
           gbScore == probe.input.gbScore
       IN  /\ Output.best_model # None
           /\ Output.best_model = (IF gbScore > rfScore
                                      THEN "GradientBoostingRegressor"
                                      ELSE "RandomForestRegressor")

\* C23: in every fold, every validation row has a later timestamp than every
\* training row, for every order of the trade outcomes.
C23_ValidationAfterTraining ==
    Called("direction")
    => \A k \in DOMAIN Output.folds :
           \A i \in Output.folds[k].train_idx, j \in Output.folds[k].val_idx :
               Output.timestamps[i] < Output.timestamps[j]

\* C24: for every hour 0..23 the window flags the service and the backtester
\* give the ensemble equal the training-time flags: opening exactly for hours
\* 9 and 10, closing exactly for hours 14 and 15.
C24_WindowsAsAtTraining ==
    Called("windows")
    => LET hour == probe.input.hour
       IN  /\ Output = engineer_features_windows(hour)
           /\ Output.is_opening_hour <=> hour \in {9, 10}
           /\ Output.is_closing_hour <=> hour \in {14, 15}

----------------------------------------------------------------------------
(* The service process: start-up, /retrain, /predict and restart.  The     *)
(* /retrain handler runs train_models as caller 1.                         *)

\* the ensemble ai_model of the process
CurrentEnsemble == Ensemble(models, scalers, label_encoders, feature_columns)

SetEnsemble(ensemble) ==
    /\ models' = ensemble.models
    /\ scalers' = ensemble.scalers
    /\ label_encoders' = ensemble.label_encoders
    /\ feature_columns' = ensemble.feature_columns

\* start-up: model_loaded is what ai_model.load_models('./models') returns
initialize_models ==
    /\ ~service.started
    /\ LET result == load_models(CurrentEnsemble, disk)
       IN  /\ SetEnsemble(result.ensemble)
           /\ model_loaded' = result.returned
           /\ service' = [service EXCEPT
                              !.started = TRUE,
                              !.load_models = <<result.returned>>,
                              !.model_last_trained =
                                  IF result.returned THEN "Loaded from disk" ELSE @]
    /\ UNCHANGED <<callVars, flow, disk, backtestVars>>

RetrainPending ==
    /\ service.started
    /\ service.retrain = "none"

\* /retrain: the training data path does not exist
RetrainNotFound ==
    /\ RetrainPending
    /\ pc[1] = "idle"
    /\ service' = [service EXCEPT !.retrain = "not_found"]
    /\ UNCHANGED <<ensembleVars, callVars, model_loaded, flow, disk, backtestVars>>

\* /retrain: engineer_features and ai_model.train_models(training_df)
RetrainTrain ==
    /\ RetrainPending
    /\ TrainStep(1)

\* /retrain: ai_model.save_models('./models'), model_last_trained and the
\* success response; or the 500 response when training raised
RetrainRespond ==
    /\ RetrainPending
    /\ pc[1] = "done"
    /\ local[1].op = "train"
    /\ IF local[1].outcome = "returned"
       THEN /\ disk' = save_models(CurrentEnsemble, disk)
            /\ service' = [service EXCEPT !.retrain = "success",
                                          !.model_last_trained = "now"]
       ELSE /\ service' = [service EXCEPT !.retrain = "failed"]
            /\ UNCHANGED disk
    /\ completed' = completed + 1
    /\ local' = [local EXCEPT ![1] = IdleLocal]
    /\ pc' = [pc EXCEPT ![1] = "idle"]
    /\ UNCHANGED <<ensembleVars, trainings, model_loaded, flow, backtestVars>>

\* /predict
PredictRequest ==
    /\ service.started
    /\ predict_price_movement

\* the process ends and is started again: the module globals are new
Restart ==
    /\ service.started
    /\ pc[1] = "idle"
    /\ service' = Stopped
    /\ SetEnsemble(NewEnsemble)
    /\ model_loaded' = FALSE
    /\ UNCHANGED <<callVars, flow, disk, backtestVars>>

WellFormedRequests == {request \in Requests : ~Has(MissingField(request))}

InitService ==
    /\ InitEnsemble
    /\ model_loaded = FALSE
    /\ flow \in {Received(request) : request \in WellFormedRequests}
    /\ InitDeployment
    /\ InitBacktester

NextService ==
    \/ initialize_models
    \/ RetrainNotFound
    \/ RetrainTrain
    \/ RetrainRespond
    \/ PredictRequest
    \/ Restart

SpecService == InitService /\ [][NextService]_vars

----------------------------------------------------------------------------
(* Properties of the service process, checked under SpecService *)

\* C28: when /retrain reports success the service has model_loaded true, and
\* a well-formed /predict request handled after that success is passed to
\* the ensemble, not rejected with 'AI models not loaded'.
C28_RetrainEnablesPredict ==
    [][/\ service'.retrain = "success" => model_loaded'
       /\ (service.retrain = "success" /\ PredictRequest)
              => flow'.error # "AI models not loaded"]_vars

\* the process has just started on a directory written by save_models
StartedOnSavedModels ==
    /\ service.started
    /\ service.retrain = "none"
    /\ pc[1] = "idle"
    /\ disk # NoFiles

\* C29: load_models on a directory written by save_models returns True and
\* the fresh ensemble then has the saved models, scaler, label encoders and
\* feature columns (in the saved order); when load_models returns False the
\* ensemble is unchanged.
C29_SaveLoadRoundTrip ==
    /\ StartedOnSavedModels
           => /\ service.load_models = <<TRUE>>
              /\ CurrentEnsemble = Ensemble(disk.models, disk.scalers[1],
                                            disk.label_encoders[1],
                                            disk.feature_columns[1])
    /\ (/\ service.started
        /\ service.retrain = "none"
        /\ pc[1] = "idle"
        /\ service.load_models = <<FALSE>>)
           => CurrentEnsemble = NewEnsemble

----------------------------------------------------------------------------
(* A property of prepare_features, checked under Spec *)

\* C25: every column prepare_features selects holds numbers or booleans: no
\* categorical field (trend, volatilityRegime, timeOfDay, indexName) is
\* selected itself; they enter only through the one-hot flags.
C25_SelectedColumnsAreNumeric ==
    \A i \in 1..Len(feature_columns) :
        feature_columns[i] \notin CategoricalColumns

====
